---- MODULE Spec2Model ----
(***************************************************************************)
(* Streaming transcription service: the WebSocket handler                  *)
(* (app/api/voice/__init__.py, websocket_endpoint), the two HTTP           *)
(* transcription endpoints and the shared WhisperService.transcribe.       *)
(*                                                                         *)
(* The server is one asyncio event loop.  A step of the model is the code  *)
(* a coroutine runs between two points where it really yields to the loop  *)
(* (websocket.accept/receive, the aiofiles writes of the debug savers).    *)
(* WhisperService.transcribe contains no such point: the engine call runs  *)
(* on the loop thread, so between TranscribeStart and TranscribeReturn no   *)
(* other coroutine is scheduled.                                           *)
(*                                                                         *)
(* Audio bytes are kept by identity: a byte string is a sequence of ranges *)
(* [src, lo, hi] of the inbound byte stream of connection src.             *)
(***************************************************************************)
EXTENDS Integers, Sequences, FiniteSets, TLC

\* ------------------------------------------------------------------ bounds
Order == <<"c1", "c2">>
Conns == {Order[i] : i \in 1..Len(Order)}
Reqs == {"r1"}
MaxRecv == 2
MaxPeerRecv == 1
MaxFaults == 1
ChunkSizes == {0, 15999, 16000, 24000}
\* a client may also send its whole recording at once: one 2-second chunk
WholeSizes == {64000}

\* --------------------------------------------------------- AUDIO_CONFIG
min_buffer_size == 16000
optimal_buffer_size == 32000
max_buffer_size == 64000

NoRec == "none"
Unknown == "unknown"
ClientIds == Conns \cup {Unknown}
Callers == Conns \cup Reqs

\* ------------------------------------------------------------ byte strings
RECURSIVE BytesLen(_)
BytesLen(b) ==
    IF b = <<>> THEN 0
    ELSE (b[1].hi - b[1].lo + 1) + BytesLen(Tail(b))

\* adjacent ranges of one stream are one range: byte strings are canonical
RECURSIVE Norm(_)
Norm(b) ==
    IF Len(b) <= 1 THEN b
    ELSE LET r == b[1]
             s == b[2]
         IN IF r.src = s.src /\ r.hi + 1 = s.lo
            THEN Norm(<<[src |-> r.src, lo |-> r.lo, hi |-> s.hi]>> \o SubSeq(b, 3, Len(b)))
            ELSE <<r>> \o Norm(Tail(b))

\* b''.join(chunks)
RECURSIVE JoinRaw(_)
JoinRaw(chunks) ==
    IF chunks = <<>> THEN <<>>
    ELSE chunks[1] \o JoinRaw(Tail(chunks))

Join(chunks) == Norm(JoinRaw(chunks))

\* sum(len(ch) for ch in chunks)
RECURSIVE SumLen(_)
SumLen(chunks) ==
    IF chunks = <<>> THEN 0
    ELSE BytesLen(chunks[1]) + SumLen(Tail(chunks))

\* b[-k:] for k > 0
RECURSIVE LastBytes(_, _)
LastBytes(b, k) ==
    IF b = <<>> \/ k <= 0 THEN <<>>
    ELSE LET r == b[Len(b)]
             n == r.hi - r.lo + 1
         IN IF n >= k
            THEN <<[src |-> r.src, lo |-> r.hi - k + 1, hi |-> r.hi]>>
            ELSE LastBytes(SubSeq(b, 1, Len(b) - 1), k - n) \o <<r>>

\* b[:k]
RECURSIVE FirstBytes(_, _)
FirstBytes(b, k) ==
    IF b = <<>> \/ k <= 0 THEN <<>>
    ELSE LET r == b[1]
             n == r.hi - r.lo + 1
         IN IF n >= k
            THEN <<[src |-> r.src, lo |-> r.lo, hi |-> r.lo + k - 1]>>
            ELSE <<r>> \o FirstBytes(Tail(b), k - n)

\* ------------------------------------------------------------------- state
VARIABLES
    audio_buffers,   \* the module-level dict: client_id -> record (named by the connection that allocated it)
    heap,            \* the record objects: chunks, first_chunk_processed, total_size, chunk_counter
    pc,              \* where each WebSocket handler coroutine is suspended
    client_id,       \* the handler's client_id
    buffer,          \* the handler's local `buffer` reference
    audio_data,      \* the handler's local `audio_data`
    combined_audio,  \* the handler's local `combined_audio`
    engine,          \* per caller: the whisper_service.transcribe call in progress
    last_in,         \* per connection: the inbound event its handler took last
    sent,            \* per connection: the first message sent, and those sent by the last step
    hist,            \* per connection: how its first and its latest non-empty chunk were handled
    nrecv,           \* inbound events consumed so far (bounded by MaxRecv)
    npeer,           \* inbound events consumed on connections after the first (bounded by MaxPeerRecv)
    nfault,          \* transport failures so far: accept or send raised (bounded by MaxFaults)
    pos,             \* per connection: bytes received so far
    hpc,             \* per HTTP request: position of its endpoint coroutine
    hreq,            \* per HTTP request: endpoint, uploaded bytes and form fields
    hstatus,         \* per HTTP request: response status (0: none yet)
    hbody,           \* per HTTP request: the JSON body of the response
    result,          \* per HTTP request: what whisper_service.transcribe returned to it
    probe            \* one direct call of whisper_service.transcribe: arguments, environment, return

locals == <<buffer, audio_data, combined_audio>>
ghost == <<last_in, sent, hist>>
http == <<hpc, hreq, hstatus, hbody>>
counters == <<nrecv, npeer>>

vars == <<audio_buffers, heap, pc, client_id, buffer, audio_data, combined_audio,
          engine, last_in, sent, hist, nrecv, npeer, nfault, pos, hpc, hreq, hstatus, hbody,
          result, probe>>

EmptyRec ==
    [chunks |-> <<>>, first_chunk_processed |-> FALSE, total_size |-> 0, chunk_counter |-> 0]

NoCall == [active |-> FALSE, audio |-> <<>>, realtime |-> FALSE]

NoEntry ==
    [chunk |-> <<>>, rule |-> "pending", total |-> 0, held |-> <<>>, engine |-> "none",
     window |-> <<>>, realtime |-> FALSE, msgs |-> <<>>, done |-> FALSE, after |-> EmptyRec]

NoHist == [n |-> 0, open |-> 0, first |-> NoEntry, last |-> NoEntry]
NoSent == [first |-> "-", last |-> <<>>]
In(kind) == [kind |-> kind, timestamp |-> "-"]
Ping(ts) == [kind |-> "ping", timestamp |-> ts]

\* ------------------------------------------------------------ pure helpers
\* mutant: the merged-window threshold taken as a strict bound
should_process_buffer_strict(buffer_size, is_first_chunk) ==
    IF is_first_chunk
    THEN buffer_size >= min_buffer_size
    ELSE buffer_size > optimal_buffer_size

should_process_buffer(buffer_size, is_first_chunk) ==
    IF is_first_chunk
    THEN buffer_size >= min_buffer_size
    ELSE buffer_size >= optimal_buffer_size \/ buffer_size >= max_buffer_size

\* mutant: the append forgets the byte count
AppendChunkNoCount(rec, data) ==
    [rec EXCEPT !.chunks = Append(@, data), !.chunk_counter = @ + 1]

\* buffer["chunks"].append(audio_data); total_size += len; chunk_counter += 1
AppendChunk(rec, data) ==
    [rec EXCEPT !.chunks = Append(@, data),
                !.total_size = @ + BytesLen(data),
                !.chunk_counter = @ + 1]

\* mutant: the overlap is cut from the head of the window
RetainOverlapHead(rec, combined) ==
    LET overlap_size == min_buffer_size \div 2
    IN IF BytesLen(combined) > overlap_size
       THEN LET overlap_data == FirstBytes(combined, overlap_size)
            IN [rec EXCEPT !.chunks = <<overlap_data>>,
                           !.total_size = BytesLen(overlap_data)]
       ELSE [rec EXCEPT !.chunks = <<>>, !.total_size = 0]

\* the overlap kept after a merged window was transcribed
RetainOverlap(rec, combined) ==
    LET overlap_size == min_buffer_size \div 2
    IN IF BytesLen(combined) > overlap_size
       THEN LET overlap_data == LastBytes(combined, overlap_size)
            IN [rec EXCEPT !.chunks = <<overlap_data>>,
                           !.total_size = BytesLen(overlap_data)]
       ELSE [rec EXCEPT !.chunks = <<>>, !.total_size = 0]

MarkFirstProcessed(rec) == [rec EXCEPT !.first_chunk_processed = TRUE]

\* mutant: the finally block leaves the record in place
RemoveRecordKept(bufs, id) == bufs

\* finally: if client_id in audio_buffers: del audio_buffers[client_id]
RemoveRecord(bufs, id) == [bufs EXCEPT ![id] = NoRec]

\* mutant: the engine call is handed to a worker thread, the loop stays free
LoopFreeThreaded == TRUE

\* the event loop thread is not inside a (synchronous) engine call
LoopFree == \A k \in Callers : ~engine[k].active

\* mutant: a frame is taken while the previous chunk's debug save is pending
CanReceiveEarly(c) == pc[c] \in {"receiving", "saving"}

\* the handler loop takes the next inbound message only at its receive()
CanReceive(c) == pc[c] = "receiving"

\* the model's budget of inbound events
Budget(c) == nrecv < MaxRecv /\ (c # Order[1] => npeer < MaxPeerRecv)
Consume(c) ==
    /\ nrecv' = nrecv + 1
    /\ npeer' = IF c # Order[1] THEN npeer + 1 ELSE npeer

\* connections are numbered in their order of arrival
Earlier(c) == {Order[i] : i \in {j \in 1..Len(Order) : \E k \in (j+1)..Len(Order) : Order[k] = c}}

\* an accept or send may raise (the transport failed); the model bounds how often
MayFail == nfault < MaxFaults

\* the client_id a connection gets: "unknown" when the server has no peer address
\* for it, else its peer's "ip:port".  Only the equality of ids matters, so the
\* first connection is the one without a peer address.
IdChoices(c) == {Unknown} \cup (IF c = Order[1] THEN {} ELSE {c})

\* a server-to-client JSON message, by its type (and the timestamp a pong echoes)
Msg(type) == [type |-> type, timestamp |-> "-"]
\* mutant: the pong carries no timestamp of the ping
PongNull(ts) == [type |-> "pong", timestamp |-> "null"]

\* lines 643-646: the pong echoes message.get("timestamp")
Pong(ts) == [type |-> "pong", timestamp |-> ts]

\* lines 598-610: the transcript copies text, confidence and duration of the result,
\* and audio_stats with its sample count.  `segments` is not on the wire: it
\* records how many segments the engine returned for this transcript.
Transcript(res) ==
    [type |-> "transcript", timestamp |-> "-", text |-> res.text,
     confidence |-> res.confidence, duration |-> res.duration,
     samples |-> res.samples, segments |-> res.segments]

\* mutant: no acknowledgement is sent after accept
AckNone == <<>>

\* lines 492-497: the connection acknowledgement
Ack == <<Msg("connection")>>

\* mutant: two heartbeats per timeout
HeartbeatTwice == <<Msg("heartbeat"), Msg("heartbeat")>>

\* lines 659-662: the heartbeat
Heartbeat == <<Msg("heartbeat")>>

\* mutant: a failed recognition is not reported
ErrorReplyDropped(sendok) == <<>>

\* lines 621-634: the error message, when its send works
ErrorReply(sendok) == IF sendok THEN <<Msg("error")>> ELSE <<>>

\* mutant: a JSON parse error ends the loop like any other exception
FatalTextAny(kind) == kind \in {"nonobject", "badjson"}

\* lines 638-650 and 667: of the text frames, only JSON that is not an object
\* raises something else than JSONDecodeError (message.get: AttributeError)
FatalText(kind) == kind = "nonobject"

\* the message types of a sequence of messages
Types(msgs) == [i \in 1..Len(msgs) |-> Msg(msgs[i].type)]

FreshChunk(c, n) == <<[src |-> c, lo |-> pos[c] + 1, hi |-> pos[c] + n]>>

\* ------------------------------------------- WhisperService.transcribe
\* Floats are kept as exact fractions num/den with den > 0.
Rat(n, d) == [num |-> n, den |-> d]
RatLe(a, b) == a.num * b.den <= b.num * a.den
RatLt(a, b) == a.num * b.den < b.num * a.den
RatEq(a, b) == a.num * b.den = b.num * a.den

\* python's min(a, b) and max(a, b): the second argument wins only when it is
\* strictly smaller (larger)
PyMin(a, b) == IF RatLt(b, a) THEN b ELSE a
PyMax(a, b) == IF RatLt(a, b) THEN b ELSE a

sample_rate == 16000
\* min_samples = int(0.1 * 16000)
min_samples == 1600
\* len(audio_data) < 100: too small, skipped
min_bytes == 100

\* lifespan (main.py) raises when initialize() fails, so requests are served
\* only by an initialized service
is_initialized == TRUE

\* the avg_logprob values of the segments are given in thousandths
RECURSIVE SumSeq(_)
SumSeq(s) == IF s = <<>> THEN 0 ELSE Head(s) + SumSeq(Tail(s))

\* total_confidence / segment_count if segment_count > 0 else 0.0
avg_confidence(segs) ==
    IF Len(segs) > 0 THEN Rat(SumSeq(segs), Len(segs) * 1000) ELSE Rat(0, 1)

\* mutant: the mapping without the clamp
confidence_unclamped(avg) == Rat(avg.num + avg.den, 2 * avg.den)

\* max(0.0, min(1.0, (avg_confidence + 1.0) / 2.0))
confidence_of(avg) ==
    PyMax(Rat(0, 1), PyMin(Rat(1, 1), Rat(avg.num + avg.den, 2 * avg.den)))

\* what the decoder returns: the length of the sample array (-1 stands for
\* None), for the raw fallback the bytes the samples were made of, whether a
\* container format had parsed and whether the raw fallback was tried
Array(k, data, parsed, fallback) ==
    [samples |-> k, pcm |-> data, parsed |-> parsed, fallback |-> fallback]
NoArray(parsed, fallback) == Array(-1, <<>>, parsed, fallback)

\* np.frombuffer(audio_data, dtype=np.int16): the number of elements; -1 stands
\* for the ValueError raised when the size is not a multiple of the element size
frombuffer_int16(data) ==
    IF BytesLen(data) % 2 # 0 THEN -1 ELSE BytesLen(data) \div 2

\* sample k (from 1) of frombuffer's array is made of bytes 2k-1 (low) and 2k
\* (high) of the buffer (int16 on a little-endian host)
sample_bytes(k) == [low |-> 2 * k - 1, high |-> 2 * k]

\* mutant: an odd length is rounded up instead of trimmed
process_raw_audio_padded(audio) ==
    Array((BytesLen(audio) + 1) \div 2, audio, FALSE, TRUE)

\* an exception leaving a block of the decoder (samples -2)
Raising(parsed, fallback) == Array(-2, <<>>, parsed, fallback)

\* except Exception: return None (lines 286-288 and 309-311)
ReturnNoneOnError(a) == IF a.samples = -2 THEN NoArray(a.parsed, a.fallback) ELSE a

\* lines 293-307 of _process_raw_audio: audio_data[:-1] for an odd length, then
\* frombuffer; the debug line formats np.min of the array, which raises
\* ValueError for an empty array
process_raw_audio_body(audio) ==
    LET data == IF BytesLen(audio) % 2 # 0
                THEN FirstBytes(audio, BytesLen(audio) - 1) ELSE audio
        k == frombuffer_int16(data)
    IN IF k <= 0 THEN Raising(FALSE, TRUE) ELSE Array(k, data, FALSE, TRUE)

\* _process_raw_audio
process_raw_audio(audio) == ReturnNoneOnError(process_raw_audio_body(audio))

\* lines 235-284 of _process_audio.  What pydub/ffmpeg make of the bytes is the
\* environment's choice `decode`: no format of the chain parses ("raw": the
\* 16-bit PCM fallback is returned), a format parses to `samples` samples at
\* 16 kHz mono ("container": the debug line formats np.min of the array, which
\* raises ValueError for an empty array), or converting the parsed segment
\* raises ("none").
process_audio_body(audio, decode) ==
    IF decode.kind = "raw" THEN process_raw_audio(audio)
    ELSE IF decode.kind = "container" /\ decode.samples > 0
         THEN Array(decode.samples, <<>>, TRUE, FALSE)
    ELSE Raising(TRUE, FALSE)

\* _process_audio
process_audio(audio, decode) == ReturnNoneOnError(process_audio_body(audio, decode))

\* a result dict; segments and samples are -1 where the dict has no such key;
\* the short-circuit results carry the literal language "zh", an engine result
\* carries info.language, the language the engine was called with
\* the keyword arguments of self.model.transcribe that depend on the request
NoEngineCall == [language |-> "-", vad_filter |-> FALSE, vad_parameters |-> "-"]

Result(text, conf, dur, segs, samples, invoked) ==
    [raised |-> FALSE, invoked |-> invoked, text |-> text, confidence |-> conf,
     duration |-> dur, segments |-> segs, samples |-> samples, call |-> NoEngineCall,
     language |-> "zh"]
Skipped(dur) == Result("", Rat(0, 1), dur, -1, -1, FALSE)
Raised(invoked) ==
    [raised |-> TRUE, invoked |-> invoked, text |-> "", confidence |-> Rat(0, 1),
     duration |-> Rat(0, 1), segments |-> -1, samples |-> -1, call |-> NoEngineCall,
     language |-> "-"]
NoResult == Skipped(Rat(-1, 1))

\* mutant: the minimum-length test is dropped
transcribe_no_min(audio, realtime_mode, decode, run) ==
    LET samples == process_audio(audio, decode).samples
    IN IF run.raises THEN Raised(TRUE)
       ELSE Result(IF Len(run.segs) = 0 THEN "" ELSE "speech",
                   confidence_of(avg_confidence(run.segs)),
                   Rat(IF samples < 0 THEN 0 ELSE samples, sample_rate),
                   Len(run.segs), samples, TRUE)

\* dict(min_silence_duration_ms=..., speech_pad_ms=..., threshold=...,
\* min_speech_duration_ms=...)
VadParams(silence_ms, pad_ms, threshold, speech_ms) ==
    [min_silence_duration_ms |-> silence_ms, speech_pad_ms |-> pad_ms,
     threshold |-> threshold, min_speech_duration_ms |-> speech_ms]

\* mutant: in realtime mode a weak signal (below 0.01) also disables VAD
vad_policy_weak_off(realtime_mode, audio_max) ==
    IF realtime_mode
    THEN [vad_params |-> VadParams(2000, 1000, Rat(5, 100), 30),
          use_vad |-> ~RatLt(audio_max, Rat(1, 100))]
    ELSE [vad_params |-> VadParams(1500, 800, Rat(1, 10), 50),
          use_vad |-> ~RatLt(audio_max, Rat(1, 1000))]

\* lines 142-176: vad_params and use_vad from the mode and the peak amplitude
vad_policy(realtime_mode, audio_max) ==
    IF realtime_mode
    THEN [vad_params |-> VadParams(2000, 1000, Rat(5, 100), 30),
          use_vad |-> IF RatLt(audio_max, Rat(1, 1000)) THEN FALSE
                      ELSE IF RatLt(audio_max, Rat(1, 100)) THEN TRUE
                      ELSE TRUE]
    ELSE [vad_params |-> VadParams(1500, 800, Rat(1, 10), 50),
          use_vad |-> IF RatLt(audio_max, Rat(1, 1000)) THEN FALSE ELSE TRUE]

\* lines 181-190: language="zh", vad_filter=use_vad,
\* vad_parameters=vad_params if use_vad else None
engine_call(realtime_mode, audio_max) ==
    LET policy == vad_policy(realtime_mode, audio_max)
    IN [language |-> "zh", vad_filter |-> policy.use_vad,
        vad_parameters |-> IF policy.use_vad THEN policy.vad_params ELSE "None"]

\* WhisperService.transcribe.  `run` is what the engine does when invoked: it
\* raises, or yields segments with the avg_logprob values run.segs;
\* info.duration is the engine's length of the array it was given.
transcribe(audio, realtime_mode, decode, run) ==
    IF ~is_initialized THEN Raised(FALSE)
    ELSE IF BytesLen(audio) < min_bytes THEN Skipped(Rat(0, 1))
    ELSE LET samples == process_audio(audio, decode).samples
         IN IF samples = -2 THEN Raised(FALSE)
            ELSE IF samples <= 0 THEN Skipped(Rat(0, 1))
            ELSE IF samples < min_samples THEN Skipped(Rat(samples, sample_rate))
            ELSE LET call == engine_call(realtime_mode, Rat(decode.peak, 10000))
                 IN IF run.raises THEN [Raised(TRUE) EXCEPT !.call = call]
                    ELSE [Result(IF Len(run.segs) = 0 THEN "" ELSE "speech",
                                 confidence_of(avg_confidence(run.segs)),
                                 Rat(samples, sample_rate),
                                 Len(run.segs), samples, TRUE)
                             EXCEPT !.call = call, !.language = call.language]

\* ---------------------------------------- transcribe called on its own
MaxSegs == 2
LogProbs == {-5000, -1000, -500, 0, 1000, 5000}
ProbeSizes == {0, 1, 2, 3, 50, 99, 100, 101, 3198, 3199, 3200, 64000}
\* peak amplitudes of the decoded array, in ten-thousandths
Peaks == {0, 9, 10, 99, 100, 500}
ProbeDecodes ==
    {[kind |-> "none", samples |-> 0, peak |-> 0]}
       \cup {[kind |-> "raw", samples |-> 0, peak |-> p] : p \in Peaks}
       \cup {[kind |-> "container", samples |-> 32000, peak |-> p] : p \in Peaks}
       \cup {[kind |-> "container", samples |-> n, peak |-> 500] : n \in {0, 1, 1599, 1600}}
RECURSIVE SeqsUpTo(_, _)
SeqsUpTo(S, n) ==
    IF n = 0 THEN {<<>>}
    ELSE LET shorter == SeqsUpTo(S, n - 1)
         IN shorter \cup {Append(q, x) : q \in shorter, x \in S}
ProbeRuns ==
    {[raises |-> TRUE, segs |-> <<>>]}
       \cup {[raises |-> FALSE, segs |-> q] : q \in SeqsUpTo(LogProbs, MaxSegs)}
ProbeBytes(n) == IF n = 0 THEN <<>> ELSE <<[src |-> "probe", lo |-> 1, hi |-> n]>>

NoProbe ==
    [state |-> "none", audio |-> <<>>, realtime |-> FALSE,
     decode |-> [kind |-> "none", samples |-> 0, peak |-> 0],
     run |-> [raises |-> FALSE, segs |-> <<>>], ret |-> NoResult,
     array |-> NoArray(FALSE, FALSE)]

\* ------------------------------------------------------------ HTTP requests
\* a multipart request: the endpoint, the file part (size and content type; ""
\* stands for no content type) and the form fields model and language ("-"
\* stands for a field the endpoint does not have or that was not sent)
Request(ep, n, ctype, model, language) ==
    [endpoint |-> ep, size |-> n, content_type |-> ctype, model |-> model,
     language |-> language, audio |-> <<>>]
NoRequest == Request("recognize", 0, "", "-", "-")
NoBody == [none |-> TRUE]

\* 50 * 1024 * 1024 and 25 * 1024 * 1024
recognize_max_size == 52428800
openai_max_size == 26214400

\* FastAPI's handler for HTTPException: the status, and the detail under the
\* key "detail" of the JSON body
http_exception(status_code, detail) ==
    [status |-> status_code, body |-> [detail |-> detail]]

\* the detail dicts of create_transcription: {"error": {"message", "type",
\* "param", "code"}}
openai_error(message, type, param) ==
    [error |-> [message |-> message, type |-> type, param |-> param, code |-> "None"]]

\* recognize_audio lines 335-381: the response raised before the debug save
\* is awaited, or status 0 when the request goes on
recognize_validate(req) ==
    IF ~is_initialized
    THEN http_exception(503, "service not initialized")
    ELSE IF req.content_type = ""
    THEN http_exception(400, "no content type")
    \* a content type outside supported_types is only logged (lines 363-365)
    ELSE IF req.size = 0
    THEN http_exception(400, "empty file")
    ELSE IF req.size > recognize_max_size
    THEN http_exception(413, "file too large")
    ELSE [status |-> 0, body |-> NoBody]

\* create_transcription lines 50-165 (response_format and temperature at their
\* defaults, a file name given)
openai_validate(req) ==
    IF req.model # "whisper-1"
    THEN http_exception(400, openai_error("invalid model", "invalid_request_error", "model"))
    ELSE IF ~is_initialized
    THEN http_exception(503, openai_error("not initialized", "service_unavailable_error", "None"))
    \* a content type outside supported_types is only logged (lines 133-134)
    ELSE IF req.size = 0
    THEN http_exception(400, openai_error("empty file", "invalid_request_error", "file"))
    ELSE IF req.size > openai_max_size
    THEN http_exception(413, openai_error("file too large", "invalid_request_error", "file"))
    ELSE [status |-> 0, body |-> NoBody]

\* recognize_audio lines 401-454: the response to what transcribe did
recognize_response(req, res) ==
    IF res.raised
    THEN http_exception(500, "recognition failed")
    ELSE [status |-> 200,
          body |-> [success |-> TRUE, text |-> res.text, confidence |-> res.confidence,
                    language |-> res.language, duration |-> res.duration,
                    requested_language |-> req.language]]

\* create_transcription lines 179-237, response_format "json"
openai_response(req, res) ==
    IF res.raised
    THEN http_exception(500, openai_error("transcription failed", "server_error", "None"))
    ELSE [status |-> 200, body |-> [text |-> res.text]]

\* -------------------------------------------------------------------- Init
InitServer ==
    /\ audio_buffers = [i \in ClientIds |-> NoRec]
    /\ heap = [c \in Conns |-> EmptyRec]
    /\ pc = [c \in Conns |-> "new"]
    /\ client_id = [c \in Conns |-> c]
    /\ buffer = [c \in Conns |-> NoRec]
    /\ audio_data = [c \in Conns |-> <<>>]
    /\ combined_audio = [c \in Conns |-> <<>>]
    /\ engine = [k \in Callers |-> NoCall]
    /\ last_in = [c \in Conns |-> In("none")]
    /\ sent = [c \in Conns |-> NoSent]
    /\ hist = [c \in Conns |-> NoHist]
    /\ nrecv = 0
    /\ npeer = 0
    /\ nfault = 0
    /\ pos = [c \in Conns |-> 0]
    /\ hpc = [r \in Reqs |-> "idle"]
    /\ hreq = [r \in Reqs |-> NoRequest]
    /\ hstatus = [r \in Reqs |-> 0]
    /\ hbody = [r \in Reqs |-> NoBody]
    /\ result = [r \in Reqs |-> NoResult]

Init ==
    /\ InitServer
    /\ probe = NoProbe

\* ------------------------------------------------- WebSocket handler steps
\* the history entry of the chunk being handled
Entry(c) == hist[c].last
NewEntry(c, e) ==
    [hist EXCEPT ![c] = [n |-> @.n + 1,
                         open |-> IF e.done THEN @.open ELSE @.open + 1,
                         first |-> IF @.n = 0 THEN e ELSE @.first,
                         last |-> e]]
SetEntry(c, e) ==
    [hist EXCEPT ![c] = [@ EXCEPT !.open = IF e.done THEN @ - 1 ELSE @,
                                  !.first = IF hist[c].n = 1 THEN e ELSE @,
                                  !.last = e]]

\* the messages this step sends to the client of c
Send(c, msgs) ==
    sent' = [sent EXCEPT ![c] =
        [first |-> IF @.first = "-" /\ msgs # <<>> THEN msgs[1].type ELSE @.first,
         last |-> msgs]]

\* break out of the receive loop, then finally (lines 679-686)
Break(c) ==
    /\ pc' = [pc EXCEPT ![c] = "closed"]
    /\ audio_buffers' = RemoveRecord(audio_buffers, client_id[c])

\* back to `await websocket.receive()`
Continue(c) ==
    /\ pc' = [pc EXCEPT ![c] = "receiving"]
    /\ UNCHANGED audio_buffers

\* a step in which a send or the accept raised
Fault ==
    /\ MayFail
    /\ nfault' = nfault + 1

\* lines 475-485: the record is allocated under client_id; accept() is awaited next
Open(c) ==
    /\ pc[c] = "new"
    /\ \A d \in Earlier(c) : pc[d] # "new"
    /\ LoopFree
    /\ \E id \in IdChoices(c) :
          /\ client_id' = [client_id EXCEPT ![c] = id]
          /\ audio_buffers' = [audio_buffers EXCEPT ![id] = c]
    /\ heap' = [heap EXCEPT ![c] = EmptyRec]
    /\ pc' = [pc EXCEPT ![c] = "accepting"]
    /\ UNCHANGED <<result, probe, locals, engine, ghost, counters, nfault, pos, http>>

\* lines 487-497 and 671-678: accept and the connection acknowledgement
Accept(c) ==
    /\ pc[c] = "accepting"
    /\ LoopFree
    /\ \E outcome \in {"ok", "disconnect", "error"} :
          \/ /\ outcome = "ok"
             /\ Send(c, Ack)
             /\ Continue(c)
             /\ UNCHANGED nfault
          \/ /\ outcome = "disconnect"      \* except WebSocketDisconnect, then finally
             /\ Fault
             /\ Break(c)
             /\ UNCHANGED sent
          \/ /\ outcome = "error"           \* except Exception: await websocket.close(...)
             /\ Fault
             /\ pc' = [pc EXCEPT ![c] = "closing"]
             /\ UNCHANGED <<sent, audio_buffers>>
    /\ UNCHANGED <<result, probe, heap, client_id, locals, engine, last_in, hist, counters, pos, http>>

\* lines 679-686 after websocket.close returned
Cleanup(c) ==
    /\ pc[c] = "closing"
    /\ LoopFree
    /\ Break(c)
    /\ UNCHANGED <<result, probe, heap, client_id, locals, engine, ghost, counters, nfault, pos, http>>

\* lines 502-526: a binary frame; it is appended, then the debug save is awaited
RecvBytes(c) ==
    /\ CanReceive(c)
    /\ LoopFree
    /\ Budget(c)
    /\ Consume(c)
    /\ Send(c, <<>>)
    /\ \E n \in ChunkSizes \cup (IF pos[c] = 0 THEN WholeSizes ELSE {}) :
          IF n = 0
          THEN /\ last_in' = [last_in EXCEPT ![c] = In("empty")]
               /\ UNCHANGED <<audio_buffers, heap, pc, buffer, audio_data, hist, pos>>
          ELSE LET data == FreshChunk(c, n)
                   r == audio_buffers[client_id[c]]
                   e == [NoEntry EXCEPT !.chunk = data]
               IN /\ last_in' = [last_in EXCEPT ![c] = In("bytes")]
                  /\ pos' = [pos EXCEPT ![c] = @ + n]
                  /\ audio_data' = [audio_data EXCEPT ![c] = data]
                  /\ IF r = NoRec
                     THEN \* KeyError at line 515, caught at 667
                          /\ Break(c)
                          /\ hist' = NewEntry(c, [e EXCEPT !.rule = "keyerror", !.done = TRUE])
                          /\ UNCHANGED <<heap, buffer>>
                     ELSE /\ heap' = [heap EXCEPT ![r] = AppendChunk(@, data)]
                          /\ buffer' = [buffer EXCEPT ![c] = r]
                          /\ pc' = [pc EXCEPT ![c] = "saving"]
                          /\ hist' = NewEntry(c, e)
                          /\ UNCHANGED audio_buffers
    /\ UNCHANGED <<result, probe, client_id, combined_audio, engine, nfault, http>>

\* lines 528-572 and 591-596, 621-634: after the debug save returned, the rule is chosen
ProcessChunk(c) ==
    /\ pc[c] = "saving"
    /\ LoopFree
    /\ LET r == audio_buffers[client_id[c]]
           e == Entry(c)
       IN IF r = NoRec
          THEN \* KeyError at line 530, caught at 621: an error message is sent
               \E sendok \in BOOLEAN :
                  LET msgs == ErrorReply(sendok)
                  IN /\ hist' = SetEntry(c, [e EXCEPT !.rule = "keyerror", !.done = TRUE,
                                       !.msgs = msgs, !.after = heap[buffer[c]]])
                     /\ Send(c, msgs)
                     /\ IF sendok THEN UNCHANGED nfault ELSE Fault
                     /\ IF msgs # <<>> THEN Continue(c) ELSE Break(c)
                     /\ UNCHANGED <<heap, buffer, combined_audio, engine>>
          ELSE LET e1 == [e EXCEPT !.total = heap[r].total_size,
                                   !.held = Join(heap[r].chunks)]
               IN
               /\ buffer' = [buffer EXCEPT ![c] = r]
               /\ Send(c, <<>>)
               /\ UNCHANGED <<audio_buffers, nfault>>
               /\ IF ~heap[r].first_chunk_processed
                  THEN IF should_process_buffer(BytesLen(audio_data[c]), TRUE)
                       THEN /\ engine' = [engine EXCEPT ![c] =
                                  [active |-> TRUE, audio |-> audio_data[c], realtime |-> TRUE]]
                            /\ pc' = [pc EXCEPT ![c] = "first_engine"]
                            /\ hist' = SetEntry(c, [e1 EXCEPT !.rule = "first"])
                            /\ UNCHANGED <<heap, combined_audio>>
                       ELSE /\ heap' = [heap EXCEPT ![r] = MarkFirstProcessed(@)]
                            /\ pc' = [pc EXCEPT ![c] = "receiving"]
                            /\ hist' = SetEntry(c, [e1 EXCEPT !.rule = "first",
                                           !.done = TRUE,
                                           !.after = MarkFirstProcessed(heap[r])])
                            /\ UNCHANGED <<engine, combined_audio>>
                  ELSE IF should_process_buffer(heap[r].total_size, FALSE)
                       THEN /\ combined_audio' = [combined_audio EXCEPT ![c] = Join(heap[r].chunks)]
                            /\ pc' = [pc EXCEPT ![c] = "saving_combined"]
                            /\ hist' = SetEntry(c, [e1 EXCEPT !.rule = "accumulate"])
                            /\ UNCHANGED <<heap, engine>>
                       ELSE /\ pc' = [pc EXCEPT ![c] = "receiving"]
                            /\ hist' = SetEntry(c, [e1 EXCEPT !.rule = "accumulate",
                                           !.done = TRUE, !.after = heap[r]])
                            /\ UNCHANGED <<heap, engine, combined_audio>>
    /\ UNCHANGED <<result, probe, client_id, audio_data, last_in, counters, pos, http>>

\* line 572: after the combined debug save returned, the merged window is submitted
SubmitMerged(c) ==
    /\ pc[c] = "saving_combined"
    /\ LoopFree
    /\ engine' = [engine EXCEPT ![c] =
          [active |-> TRUE, audio |-> combined_audio[c], realtime |-> TRUE]]
    /\ pc' = [pc EXCEPT ![c] = "merged_engine"]
    /\ UNCHANGED <<result, probe, audio_buffers, heap, client_id, locals, ghost, counters, nfault,
                   pos, http>>

\* what the decoder and the engine do with the audio of a connection or request
WsDecodes == {[kind |-> "raw", samples |-> 0, peak |-> 0]}
WsRuns == {[raises |-> TRUE, segs |-> <<>>],
           [raises |-> FALSE, segs |-> <<>>],
           [raises |-> FALSE, segs |-> <<-500>>]}

\* lines 542-547 and 572-634: the engine call returns or raises; overlap, response,
\* error message
TranscribeReturn(c) ==
    /\ pc[c] \in {"first_engine", "merged_engine"}
    /\ engine[c].active
    /\ \E decode \in WsDecodes, run \in WsRuns, send1 \in BOOLEAN, send2 \in BOOLEAN :
          LET b == buffer[c]
              res == transcribe(engine[c].audio, engine[c].realtime, decode, run)
              outcome == IF res.raised THEN "raise" ELSE "ok"
              rec == IF outcome = "raise" THEN heap[b]
                     ELSE IF pc[c] = "first_engine" THEN MarkFirstProcessed(heap[b])
                     ELSE RetainOverlap(heap[b], combined_audio[c])
              msgs == IF outcome = "ok"
                      THEN IF send1 THEN <<Transcript(res)>> ELSE ErrorReply(send2)
                      ELSE ErrorReply(send1)
              failed == ~send1 \/ ~send2
          IN \* send2: the error send that follows a failed transcript send
             /\ (outcome = "raise" \/ send1) => send2
             /\ (decode.kind = "none" => ~run.raises /\ run.segs = <<>>)
             /\ IF failed THEN Fault ELSE UNCHANGED nfault
             /\ heap' = [heap EXCEPT ![b] = rec]
             /\ hist' = SetEntry(c, [Entry(c) EXCEPT !.engine = outcome,
                            !.window = engine[c].audio, !.realtime = engine[c].realtime,
                            !.msgs = Types(msgs), !.done = TRUE, !.after = rec])
             /\ Send(c, msgs)
             /\ IF msgs # <<>>
                THEN Continue(c)
                ELSE Break(c)   \* the error message could not be sent (line 634)
    /\ engine' = [engine EXCEPT ![c] = NoCall]
    /\ UNCHANGED <<result, probe, client_id, locals, last_in, counters, pos, http>>

Timestamps == {"t1", "null"}

\* lines 636-650 and 667-669: a text frame
RecvText(c) ==
    /\ CanReceive(c)
    /\ LoopFree
    /\ Budget(c)
    /\ Consume(c)
    /\ \E kind \in {"ping", "badjson", "object", "nonobject"}, ts \in Timestamps,
          sendok \in BOOLEAN :
          \/ /\ kind = "ping" /\ sendok
             /\ last_in' = [last_in EXCEPT ![c] = Ping(ts)]
             /\ Send(c, <<Pong(ts)>>)
             /\ Continue(c)
             /\ UNCHANGED nfault
          \/ /\ kind \in {"badjson", "object"}   \* JSONDecodeError is logged; other types ignored
             /\ ~FatalText(kind)
             /\ last_in' = [last_in EXCEPT ![c] = In(kind)]
             /\ Send(c, <<>>)
             /\ Continue(c)
             /\ UNCHANGED nfault
          \/ /\ kind = "ping" /\ ~sendok          \* the pong send raises: caught at line 667
             /\ last_in' = [last_in EXCEPT ![c] = Ping(ts)]
             /\ Send(c, <<>>)
             /\ Fault
             /\ Break(c)
          \/ /\ kind # "ping" /\ FatalText(kind)   \* message.get raises AttributeError: line 667
             /\ last_in' = [last_in EXCEPT ![c] = In(kind)]
             /\ Send(c, <<>>)
             /\ Break(c)
             /\ UNCHANGED nfault
    /\ UNCHANGED <<result, probe, heap, client_id, locals, engine, hist, pos, http>>

\* lines 652-654: websocket.disconnect
RecvDisconnect(c) ==
    /\ CanReceive(c)
    /\ LoopFree
    /\ Budget(c)
    /\ Consume(c)
    /\ last_in' = [last_in EXCEPT ![c] = In("disconnect")]
    /\ Send(c, <<>>)
    /\ Break(c)
    /\ UNCHANGED <<result, probe, heap, client_id, locals, engine, hist, nfault, pos, http>>

\* lines 656-665: the 30 s wait for input timed out
RecvTimeout(c) ==
    /\ CanReceive(c)
    /\ LoopFree
    /\ Budget(c)
    /\ Consume(c)
    /\ last_in' = [last_in EXCEPT ![c] = In("timeout")]
    /\ \E sendok \in BOOLEAN :
          IF sendok
          THEN /\ Send(c, Heartbeat)
               /\ Continue(c)
               /\ UNCHANGED nfault
          ELSE /\ Send(c, <<>>)
               /\ Fault
               /\ Break(c)
    /\ UNCHANGED <<result, probe, heap, client_id, locals, engine, hist, pos, http>>

\* ---------------------------------------------------------- HTTP endpoints
HttpSizes == {0, 18, 64000}
Languages == {"zh", "en", "auto"}
HttpRequests ==
    {Request("recognize", 0, "audio/wav", "-", "zh"),
     Request("recognize", 18, "text/plain", "-", "zh"),
     Request("recognize", 64000, "", "-", "zh")}
       \cup {Request("recognize", 64000, "audio/wav", "-", l) : l \in Languages}
       \cup {Request("openai", n, "audio/wav", "whisper-1", "-") : n \in {0, 64000}}
       \cup {Request("openai", n, "audio/wav", "invalid-model", "-") : n \in HttpSizes}

\* recognize_audio lines 335-381, create_transcription lines 50-165:
\* validation around the awaited file read
HttpArrive(r) ==
    /\ hpc[r] = "idle"
    /\ LoopFree
    /\ nrecv < MaxRecv
    /\ nrecv' = nrecv + 1
    /\ UNCHANGED npeer
    /\ \E q \in HttpRequests :
          LET req == [q EXCEPT !.audio = IF q.size = 0 THEN <<>>
                                         ELSE <<[src |-> r, lo |-> 1, hi |-> q.size]>>]
              early == IF req.endpoint = "recognize" THEN recognize_validate(req)
                       ELSE openai_validate(req)
          IN /\ hreq' = [hreq EXCEPT ![r] = req]
             /\ IF early.status # 0
                THEN /\ hstatus' = [hstatus EXCEPT ![r] = early.status]
                     /\ hbody' = [hbody EXCEPT ![r] = early.body]
                     /\ hpc' = [hpc EXCEPT ![r] = "done"]
                ELSE /\ hpc' = [hpc EXCEPT ![r] = "read"]
                     /\ UNCHANGED <<hstatus, hbody>>
    /\ UNCHANGED <<result, probe, audio_buffers, heap, pc, client_id, locals, engine, ghost,
                   nfault, pos>>

\* recognize_audio lines 392-401 (realtime_mode=False), create_transcription
\* line 179 (realtime_mode left at its default True)
HttpSubmit(r) ==
    /\ hpc[r] = "read"
    /\ LoopFree
    /\ engine' = [engine EXCEPT ![r] =
          [active |-> TRUE, audio |-> hreq[r].audio,
           realtime |-> (hreq[r].endpoint = "openai")]]
    /\ hpc' = [hpc EXCEPT ![r] = "engine"]
    /\ UNCHANGED <<result, probe, audio_buffers, heap, pc, client_id, locals, ghost, counters,
                   nfault, pos, hreq, hstatus, hbody>>

\* recognize_audio lines 401-454, create_transcription lines 179-237
HttpReturn(r) ==
    /\ hpc[r] = "engine"
    /\ engine[r].active
    /\ \E decode \in WsDecodes, run \in WsRuns :
          LET res == transcribe(engine[r].audio, engine[r].realtime, decode, run)
              resp == IF hreq[r].endpoint = "recognize"
                      THEN recognize_response(hreq[r], res)
                      ELSE openai_response(hreq[r], res)
          IN /\ result' = [result EXCEPT ![r] = res]
             /\ hstatus' = [hstatus EXCEPT ![r] = resp.status]
             /\ hbody' = [hbody EXCEPT ![r] = resp.body]
    /\ engine' = [engine EXCEPT ![r] = NoCall]
    /\ hpc' = [hpc EXCEPT ![r] = "done"]
    /\ UNCHANGED <<probe, audio_buffers, heap, pc, client_id, locals, ghost, counters,
                   nfault, pos, hreq>>

\* ------------------------------------------------------------ specification
Next ==
    \/ \E c \in Conns :
          \/ Open(c)
          \/ Accept(c)
          \/ Cleanup(c)
          \/ RecvBytes(c)
          \/ ProcessChunk(c)
          \/ SubmitMerged(c)
          \/ TranscribeReturn(c)
          \/ RecvText(c)
          \/ RecvDisconnect(c)
          \/ RecvTimeout(c)
    \/ \E r \in Reqs :
          \/ HttpArrive(r)
          \/ HttpSubmit(r)
          \/ HttpReturn(r)

Spec == Init /\ [][Next]_vars

\* -------------------------------- specification of transcribe on its own
InitT ==
    /\ InitServer
    /\ \E n \in ProbeSizes, rt \in BOOLEAN, d \in ProbeDecodes, run \in ProbeRuns :
          probe = [NoProbe EXCEPT !.state = "called", !.audio = ProbeBytes(n),
                                  !.realtime = rt, !.decode = d, !.run = run]

\* await whisper_service.transcribe(audio_data, realtime_mode)
TranscribeCall ==
    /\ probe.state = "called"
    /\ probe' = [probe EXCEPT !.state = "returned",
                    !.ret = transcribe(probe.audio, probe.realtime, probe.decode, probe.run)]
    /\ UNCHANGED <<audio_buffers, heap, pc, client_id, locals, engine, ghost, counters,
                   nfault, pos, http, result>>

\* await self._process_audio(audio_data), called on its own
DecodeCall ==
    /\ probe.state = "called"
    /\ probe' = [probe EXCEPT !.state = "decoded",
                    !.array = process_audio(probe.audio, probe.decode)]
    /\ UNCHANGED <<audio_buffers, heap, pc, client_id, locals, engine, ghost, counters,
                   nfault, pos, http, result>>

NextT == TranscribeCall \/ DecodeCall

SpecT == InitT /\ [][NextT]_vars

\* ------------------------------------------------------------------ claims
\* the byte at (1-based) index i of a byte string: <<stream, offset>>
RECURSIVE ByteAt(_, _)
ByteAt(b, i) ==
    LET n == b[1].hi - b[1].lo + 1
    IN IF i <= n THEN <<b[1].src, b[1].lo + i - 1>> ELSE ByteAt(Tail(b), i - n)

\* kept is the trailing k bytes of merged (length, and the bytes at the probed indexes)
IsTrailing(kept, merged, k) ==
    /\ BytesLen(kept) = k
    /\ BytesLen(merged) >= k
    /\ \A i \in {1, 2, k \div 2, k - 1, k} :
          ByteAt(kept, i) = ByteAt(merged, BytesLen(merged) - k + i)

Handling == {"saving", "saving_combined", "first_engine", "merged_engine"}
Active == {k \in Callers : engine[k].active}

\* C1: in every reachable state every buffer record's total_size is the sum of the
\* lengths of the chunks it holds.
C1_TotalSizeIsSumOfChunks ==
    \A r \in Conns : heap[r].total_size = SumLen(heap[r].chunks)

\* C1 witness: an emit has kept the overlap as the only chunk
C1_Witness ==
    \E c \in Conns :
        /\ hist[c].last.rule = "accumulate" /\ hist[c].last.engine = "ok"
        /\ pc[c] = "receiving"
        /\ Len(heap[buffer[c]].chunks) = 1
        /\ heap[buffer[c]].total_size = 8000

\* C2 (as claimed): the first chunk of a connection, once handled: of 16000 bytes or
\* more, it alone was submitted in realtime mode, and a transcript sent when the call
\* returned and the transport worked; of 15999 bytes or fewer, no call and no message;
\* either way first_chunk_processed is true afterwards.
C2_FirstChunkRule ==
    \A c \in Conns :
        LET f == hist[c].first
        IN (hist[c].n >= 1 /\ f.done) =>
              /\ BytesLen(f.chunk) >= 16000 =>
                    /\ f.engine # "none"
                    /\ f.window = f.chunk
                    /\ f.realtime
                    /\ (f.engine = "ok" /\ nfault = 0) => f.msgs = <<Msg("transcript")>>
              /\ BytesLen(f.chunk) <= 15999 => (f.engine = "none" /\ f.msgs = <<>>)
              /\ f.after.first_chunk_processed

OverlapKept(after, w) ==
    IF BytesLen(w) > 8000
    THEN /\ Len(after.chunks) = 1
         /\ IsTrailing(after.chunks[1], w, 8000)
         /\ after.total_size = 8000
    ELSE after.chunks = <<>> /\ after.total_size = 0

\* C4: after an emit whose engine call succeeded, on a window of N bytes: N > 8000
\* leaves exactly the trailing 8000 bytes as one chunk and total_size 8000; N <= 8000
\* leaves no chunk and total_size 0 (for the windows the handler emits, and for
\* windows of 5000, 8000, 8001 and 40000 bytes).
C4_OverlapAfterEmit ==
    /\ \A c \in Conns :
          LET e == hist[c].last
          IN (hist[c].n >= 1 /\ e.done /\ e.rule = "accumulate" /\ e.engine = "ok") =>
                OverlapKept(e.after, e.window)
    /\ \A n \in {5000, 8000, 8001, 40000} :
          LET w == <<[src |-> Order[1], lo |-> 1, hi |-> n]>>
          IN OverlapKept(RetainOverlap(AppendChunk(EmptyRec, w), w), w)

\* C4 witness: an emit on a 40000-byte window succeeded
C4_Witness ==
    \E c \in Conns :
        LET e == hist[c].last
        IN e.done /\ e.rule = "accumulate" /\ e.engine = "ok" /\ BytesLen(e.window) = 40000

\* two byte strings share a byte
Overlap(b1, b2) ==
    \E i \in 1..Len(b1), j \in 1..Len(b2) :
        /\ b1[i].src = b2[j].src
        /\ b1[i].lo <= b2[j].hi
        /\ b2[j].lo <= b1[i].hi

\* C5 (as claimed): once a connection's first non-empty chunk has been handled,
\* first_chunk_processed is true, and no later chunk is handled by the first-chunk rule.
C5_FirstChunkRuleOnce ==
    \A c \in Conns :
        /\ (hist[c].n >= 1 /\ hist[c].first.done) =>
              hist[c].first.after.first_chunk_processed
        /\ hist[c].n >= 2 => hist[c].last.rule # "first"

\* C6 (as claimed): a first chunk shorter than 16000 bytes, once skipped, is in no
\* record's chunk list and in no window submitted to the engine.
C6_ShortFirstChunkDiscarded ==
    \A c \in Conns :
        LET f == hist[c].first
        IN (hist[c].n >= 1 /\ f.done /\ f.rule = "first" /\ BytesLen(f.chunk) < 16000) =>
              /\ \A r \in Conns : ~Overlap(Join(heap[r].chunks), f.chunk)
              /\ ~Overlap(hist[c].last.window, f.chunk)
              /\ \A k \in Callers : engine[k].active => ~Overlap(engine[k].audio, f.chunk)

\* C7 (as claimed): every connection between open and close finds its own record under
\* its client_id, and its handler works on no other record.
C7_NoSharedBufferState ==
    \A c \in Conns :
        /\ pc[c] \notin {"new", "closed"} => audio_buffers[client_id[c]] = c
        /\ buffer[c] \in {NoRec, c}

\* C8: a connection has at most one chunk in handling; one is in handling exactly
\* while the handler is between its receive and the end of that chunk's buffering,
\* engine call, trimming and response, and it is the chunk received last.
C8_OneChunkAtATime ==
    \A c \in Conns :
        /\ hist[c].open <= 1
        /\ hist[c].open = 1 <=> pc[c] \in Handling
        /\ hist[c].open = 1 => (hist[c].last.chunk = audio_data[c] /\ ~hist[c].last.done)
        /\ pc[c] = "receiving" /\ hist[c].n >= 1 => hist[c].last.done

\* C8 witness: a second chunk is in handling after the first was completed
C8_Witness ==
    \E c \in Conns :
        /\ hist[c].n = 2 /\ hist[c].first.done
        /\ hist[c].open = 1 /\ pc[c] = "merged_engine"

\* C9 (as claimed): while the engine call of connection a is in flight, another
\* connection b waiting for input can have a frame received, a ping answered and a
\* heartbeat sent.
C9_OtherConnectionsServed ==
    \A a \in Conns, b \in Conns :
        (a # b /\ engine[a].active /\ pc[b] = "receiving" /\ Budget(b)) =>
            /\ ENABLED RecvBytes(b)
            /\ ENABLED RecvText(b)
            /\ ENABLED RecvTimeout(b)

\* C10: at most one engine call is in progress at any time, over all WebSocket
\* connections and HTTP requests.
C10_EngineCallsSerialized == Cardinality(Active) <= 1

\* C10 witness: an engine call is in flight while another caller has its audio ready
C10_Witness ==
    \E k \in Callers :
        /\ engine[k].active
        /\ \/ \E r \in Reqs \ {k} : hpc[r] = "read"
           \/ \E c \in Conns \ {k} :
                 pc[c] = "saving" /\ BytesLen(audio_data[c]) >= 16000

\* the step consumes an inbound event of connection c (two connections: an event
\* of the later one also counts in npeer; an HTTP arrival moves hpc)
Took(c) ==
    /\ nrecv' = nrecv + 1
    /\ hpc' = hpc
    /\ (npeer' = npeer) <=> (c = Order[1])

\* the step is the handler of c leaving its loop through finally
Closes(c) == pc[c] # "closed" /\ pc'[c] = "closed"

\* the step leaves every buffer record as it was
RecordsUnchanged == heap' = heap /\ audio_buffers' = audio_buffers

\* a send of c's handler raised in this step, the loop ended and finally ran
TornDown(c) ==
    /\ nfault' = nfault + 1
    /\ sent'[c].last = <<>>
    /\ pc'[c] = "closed"
    /\ audio_buffers'[client_id[c]] = NoRec

\* C11: when the engine call of a window raises, one error message is sent, the
\* connection stays open and a later chunk or ping can be taken; the connection is
\* torn down then only if sending the error message failed.
C11_EngineFailureReported ==
    /\ [][\A c \in Conns :
            (engine[c].active /\ ~engine'[c].active /\ hist'[c].last.engine = "raise") =>
                \/ /\ sent'[c].last = <<Msg("error")>>
                   /\ pc'[c] = "receiving"
                   /\ nfault' = nfault
                   /\ RecordsUnchanged
                \/ TornDown(c)]_vars
    /\ [](\A c \in Conns :
            (pc[c] = "receiving" /\ hist[c].n >= 1 /\ hist[c].last.engine = "raise"
                /\ LoopFree /\ Budget(c)) =>
                (ENABLED RecvBytes(c) /\ ENABLED RecvText(c)))

\* C11 witness: after a raised engine call was reported, a later chunk was handled
C11_Witness ==
    \E c \in Conns :
        /\ hist[c].n = 2
        /\ hist[c].first.engine = "raise" /\ hist[c].first.msgs = <<Msg("error")>>
        /\ hist[c].last.done
        /\ pc[c] = "receiving"

\* C12: when a handler has terminated, by whichever path, the entry under its
\* client_id was removed, its record is not in audio_buffers, and nothing more
\* is received, sent or handled for it.
C12_CleanupOnTermination ==
    /\ [][\A c \in Conns :
            /\ Closes(c) => audio_buffers'[client_id[c]] = NoRec
            /\ pc[c] = "closed" =>
                  /\ pc'[c] = "closed"
                  /\ sent'[c] = sent[c] /\ last_in'[c] = last_in[c]
                  /\ hist'[c] = hist[c]]_vars
    /\ [](\A c \in Conns :
            pc[c] = "closed" =>
                /\ \A id \in ClientIds : audio_buffers[id] # c
                /\ ~engine[c].active
                /\ ~ENABLED RecvBytes(c) /\ ~ENABLED RecvText(c)
                /\ ~ENABLED RecvTimeout(c) /\ ~ENABLED ProcessChunk(c))

\* C12 witness: a connection that buffered a chunk was closed by its client
C12_Witness ==
    \E c \in Conns :
        /\ pc[c] = "closed"
        /\ last_in[c].kind = "disconnect"
        /\ hist[c].n >= 1
        /\ heap[c].total_size > 0

\* C13: a ping with timestamp T, taken at any point of the connection, is answered
\* in the same step with exactly one pong carrying T, and no buffer record changes
\* (unless the send raised: then the connection is torn down).
C13_PingPong ==
    [][\A c \in Conns :
          (Took(c) /\ last_in'[c].kind = "ping") =>
              \/ /\ sent'[c].last = <<[type |-> "pong", timestamp |-> last_in'[c].timestamp]>>
                 /\ pc'[c] = "receiving"
                 /\ nfault' = nfault
                 /\ RecordsUnchanged
              \/ TornDown(c) /\ heap' = heap]_vars

\* C13 witness: a ping with a timestamp was answered after a chunk had been buffered
C13_Witness ==
    \E c \in Conns :
        /\ last_in[c] = Ping("t1")
        /\ sent[c].last = <<Pong("t1")>>
        /\ hist[c].n >= 1 /\ hist[c].last.done
        /\ heap[audio_buffers[client_id[c]]].total_size > 0

\* C14: a text frame that is not JSON sends nothing, changes no buffer record and
\* leaves the handler waiting for the next message, which it can take.
C14_MalformedJsonIgnored ==
    /\ [][\A c \in Conns :
            (Took(c) /\ last_in'[c].kind = "badjson") =>
                /\ sent'[c].last = <<>>
                /\ pc'[c] = "receiving"
                /\ nfault' = nfault
                /\ RecordsUnchanged]_vars
    /\ [](\A c \in Conns :
            (last_in[c].kind = "badjson" /\ LoopFree /\ Budget(c)) =>
                (ENABLED RecvBytes(c) /\ ENABLED RecvText(c)))

\* C14 witness: malformed JSON arrived after a chunk was buffered, and the
\* handler waits for more
C14_Witness ==
    \E c \in Conns :
        /\ last_in[c].kind = "badjson"
        /\ pc[c] = "receiving"
        /\ hist[c].n >= 1

\* C15: a timeout of the wait for input sends one heartbeat, changes no record and
\* the handler waits again, or the send raised and the connection is torn down;
\* timeouts happen only in the wait for input: never while the connection's engine
\* call is in flight, and an engine call in flight ends only by returning or raising.
C15_HeartbeatOnIdle ==
    /\ [][\A c \in Conns :
            /\ (Took(c) /\ last_in'[c].kind = "timeout") =>
                  /\ pc[c] = "receiving" /\ ~engine[c].active
                  /\ \/ /\ sent'[c].last = <<Msg("heartbeat")>>
                        /\ pc'[c] = "receiving"
                        /\ nfault' = nfault
                        /\ RecordsUnchanged
                     \/ TornDown(c) /\ heap' = heap
            /\ (engine[c].active /\ ~engine'[c].active) =>
                  /\ hist'[c].last.done
                  /\ hist'[c].last.engine \in {"ok", "raise"}
            /\ engine[c].active =>
                  (\A i \in 1..Len(sent'[c].last) : sent'[c].last[i].type # "heartbeat")]_vars
    /\ [](\A c \in Conns : engine[c].active => ~ENABLED RecvTimeout(c))

\* C15 witness: a heartbeat was sent on an idle connection that holds audio
C15_Witness ==
    \E c \in Conns :
        /\ last_in[c].kind = "timeout"
        /\ sent[c].last = <<Msg("heartbeat")>>
        /\ pc[c] = "receiving"
        /\ hist[c].n >= 1

\* C16: the first message a connection is sent is the connection acknowledgement;
\* it is sent by the step that follows the allocation of the record, and nothing
\* is sent before.
C16_AckFirst ==
    /\ [](\A c \in Conns :
            /\ sent[c].first \in {"-", "connection"}
            /\ pc[c] \in {"new", "accepting"} => (sent[c].first = "-" /\ sent[c].last = <<>>))
    /\ [][\A c \in Conns :
            (sent[c].first = "-" /\ sent'[c].first # "-") =>
                /\ pc[c] = "accepting"
                /\ sent'[c].last = <<Msg("connection")>>]_vars

\* C16 witness: after the acknowledgement another kind of message was sent
C16_Witness ==
    \E c \in Conns :
        /\ sent[c].first = "connection"
        /\ Len(sent[c].last) = 1
        /\ sent[c].last[1].type \in {"transcript", "error", "pong", "heartbeat"}

\* the samples of the frame the decoder makes of the probe's bytes (none: 0)
FrameSamples ==
    IF probe.decode.kind = "raw" THEN BytesLen(probe.audio) \div 2
    ELSE IF probe.decode.kind = "container" THEN probe.decode.samples
    ELSE 0

\* the mean avg_logprob of the segments, 0 for none
MeanLogProb(segs) ==
    IF Len(segs) = 0 THEN Rat(0, 1) ELSE Rat(SumSeq(segs), 1000 * Len(segs))

\* clamp((sum/n + 1) / 2, 0, 1) for n > 0 segments whose avg_logprob sum to
\* sum thousandths; 1/2 for no segments
ClampedConfidence(segs) ==
    LET n == Len(segs)
        x == Rat(SumSeq(segs) + 1000 * n, 2000 * n)
    IN IF n = 0 THEN Rat(1, 2)
       ELSE IF x.num <= 0 THEN Rat(0, 1)
       ELSE IF x.num >= x.den THEN Rat(1, 1)
       ELSE x

\* C17: when the engine was invoked and returned, the confidence is
\* clamp((avg + 1) / 2, 0, 1) with avg the mean avg_logprob of the segments, 0.0 for
\* no segments; it is monotonic in avg; avg -1.0 and -5.0 give 0.0, avg 1.0 and 5.0
\* give 1.0.
C17_ConfidenceMapping ==
    (probe.state = "returned" /\ probe.ret.invoked /\ ~probe.ret.raised) =>
        LET segs == probe.run.segs
            conf == probe.ret.confidence
        IN /\ RatEq(conf, ClampedConfidence(segs))
           /\ probe.ret.segments = Len(segs)
           /\ RatLe(Rat(0, 1), conf) /\ RatLe(conf, Rat(1, 1))
           /\ \A other \in SeqsUpTo(LogProbs, MaxSegs) :
                 RatLe(MeanLogProb(segs), MeanLogProb(other)) =>
                    RatLe(conf, ClampedConfidence(other))
           /\ segs \in {<<-1000>>, <<-5000>>} => RatEq(conf, Rat(0, 1))
           /\ segs \in {<<1000>>, <<5000>>} => RatEq(conf, Rat(1, 1))

\* C17 witness: two segments averaging -0.5 gave confidence 0.25
C17_Witness ==
    /\ probe.state = "returned"
    /\ probe.ret.invoked /\ ~probe.ret.raised
    /\ probe.run.segs = <<-1000, 0>>
    /\ RatEq(probe.ret.confidence, Rat(1, 4))

\* C18 (as claimed): a 64000-byte chunk sent as the first chunk of a connection,
\* for which the engine returns no segments, yields a transcript with text "",
\* confidence 0.0 and duration 2.0.
C18_SilentFirstChunk ==
    \A c \in Conns :
        LET f == hist[c].first
            m == sent[c].last[1]
        IN (hist[c].n = 1 /\ f.done /\ f.rule = "first" /\ BytesLen(f.chunk) = 64000
              /\ f.window = f.chunk
              /\ Len(sent[c].last) = 1 /\ m.type = "transcript" /\ m.segments = 0) =>
                 /\ m.text = ""
                 /\ RatEq(m.confidence, Rat(0, 1))
                 /\ RatEq(m.duration, Rat(2, 1))

\* C19: for an input of fewer than 100 bytes, or a decoded frame of fewer than 1600
\* samples, the engine is not invoked and transcribe returns text "" and confidence
\* 0.0 without raising.
C19_ShortInputSkipsEngine ==
    (probe.state = "returned"
        /\ (BytesLen(probe.audio) < 100 \/ FrameSamples < 1600)) =>
            /\ ~probe.ret.invoked
            /\ ~probe.ret.raised
            /\ probe.ret.text = ""
            /\ RatEq(probe.ret.confidence, Rat(0, 1))

\* C19 witness: 3198 bytes of raw PCM (1599 samples) returned without the engine
C19_Witness ==
    /\ probe.state = "returned"
    /\ BytesLen(probe.audio) = 3198 /\ probe.decode.kind = "raw"
    /\ probe.run.raises
    /\ ~probe.ret.invoked /\ ~probe.ret.raised

\* C20 (as claimed): every short-circuited result reports as duration the decoded
\* sample count divided by 16000; 2 to 99 bytes of raw PCM report
\* floor(bytes/2)/16000.
C20_ShortInputDuration ==
    (probe.state = "returned" /\ ~probe.ret.invoked /\ ~probe.ret.raised) =>
        RatEq(probe.ret.duration, Rat(FrameSamples, 16000))

\* the byte strings a and b agree at the probed indexes (from 1)
SameBytesAt(a, b, idx) ==
    \A i \in idx : (1 <= i /\ i <= BytesLen(a)) =>
        (i <= BytesLen(b) /\ ByteAt(a, i) = ByteAt(b, i))

\* C21: the raw-PCM fallback makes of n bytes floor(n/2) samples: sample k is
\* made of bytes 2k-1 (low) and 2k (high) of the input, so exactly the first
\* n-1 bytes are used when n is odd (the last byte is dropped, nothing is padded)
\* and all n bytes when n is even; for n < 2 there are no samples and no array.
C21_RawFallbackSamples ==
    (probe.state = "decoded" /\ probe.decode.kind = "raw") =>
        LET n == BytesLen(probe.audio)
            a == probe.array
            k == IF a.samples < 0 THEN 0 ELSE a.samples
        IN /\ k = n \div 2
           /\ a.fallback /\ ~a.parsed
           /\ BytesLen(a.pcm) = IF n % 2 = 1 THEN n - 1 ELSE n
           /\ BytesLen(a.pcm) = 2 * k
           /\ \A s \in {1, 2, k \div 2, k - 1, k} : (1 <= s /\ s <= k) =>
                 /\ sample_bytes(s).high <= BytesLen(a.pcm)
                 /\ SameBytesAt(a.pcm, probe.audio,
                                {sample_bytes(s).low, sample_bytes(s).high})
           /\ a.samples < 0 <=> n < 2

\* C21 witness: 3199 raw bytes were decoded to 1599 samples from the first 3198
C21_Witness ==
    /\ probe.state = "decoded" /\ probe.decode.kind = "raw"
    /\ BytesLen(probe.audio) = 3199
    /\ probe.array.samples = 1599
    /\ BytesLen(probe.array.pcm) = 3198

\* C22 (as claimed): _process_audio returns a sample array or None and never
\* raises; it returns None only when no format of the chain parsed and the
\* raw-PCM fallback was tried and failed; transcribe answers a failed or empty
\* decode with text "" and confidence 0.0 without raising.
C22_DecodeNeverRaises ==
    /\ probe.state = "decoded" =>
          /\ probe.array.samples # -2
          /\ probe.array.samples # 0
          /\ probe.array.samples = -1 =>
                (~probe.array.parsed /\ probe.array.fallback)
    /\ (probe.state = "returned" /\ BytesLen(probe.audio) >= 100
           /\ process_audio(probe.audio, probe.decode).samples <= 0) =>
          /\ ~probe.ret.raised /\ ~probe.ret.invoked
          /\ probe.ret.text = ""
          /\ RatEq(probe.ret.confidence, Rat(0, 1))

\* the part of C22 that holds: nothing is raised, and transcribe answers a
\* failed decode with the empty result
C22_NoneInsteadOfError ==
    /\ probe.state = "decoded" => probe.array.samples \notin {-2, 0}
    /\ (probe.state = "returned" /\ BytesLen(probe.audio) >= 100
           /\ process_audio(probe.audio, probe.decode).samples <= 0) =>
          /\ ~probe.ret.raised /\ ~probe.ret.invoked
          /\ probe.ret.text = ""
          /\ RatEq(probe.ret.confidence, Rat(0, 1))

\* C23: the VAD arguments of the engine call depend on the mode and the peak
\* amplitude only: below 0.001 vad_filter is off and no parameters are passed,
\* in either mode; from 0.001 on it is on with the mode's profile (realtime
\* 2000/1000/0.05/30, batch 1500/800/0.1/50), the same in realtime mode for a
\* peak in [0.001, 0.01) as for one of 0.01 or more.
C23_VadPolicy ==
    (probe.state = "returned" /\ probe.ret.invoked) =>
        LET p == probe.decode.peak
            call == probe.ret.call
        IN /\ call.vad_filter <=> p >= 10
           /\ p < 10 => call.vad_parameters = "None"
           /\ (p >= 10 /\ probe.realtime) =>
                 /\ call.vad_parameters.min_silence_duration_ms = 2000
                 /\ call.vad_parameters.speech_pad_ms = 1000
                 /\ RatEq(call.vad_parameters.threshold, Rat(5, 100))
                 /\ call.vad_parameters.min_speech_duration_ms = 30
           /\ (p >= 10 /\ ~probe.realtime) =>
                 /\ call.vad_parameters.min_silence_duration_ms = 1500
                 /\ call.vad_parameters.speech_pad_ms = 800
                 /\ RatEq(call.vad_parameters.threshold, Rat(10, 100))
                 /\ call.vad_parameters.min_speech_duration_ms = 50

\* C23 witness: a realtime call with peak 0.0099 reached the engine with VAD on
C23_Witness ==
    /\ probe.state = "returned" /\ probe.ret.invoked
    /\ probe.realtime /\ probe.decode.peak = 99
    /\ probe.ret.call.vad_filter

\* the content types recognize_audio lists as supported (lines 351-361)
AudioTypes == {"audio/wav", "audio/mpeg", "audio/webm", "application/octet-stream"}

\* C24 (as claimed): a request to POST /api/voice/recognize whose file is not
\* audio and is not declared as audio (18 bytes sent as text/plain) is answered
\* with a status of 400 or more, never with 200.
C24_NonAudioRejected ==
    \A r \in Reqs :
        (hpc[r] = "done" /\ hreq[r].endpoint = "recognize"
            /\ hreq[r].content_type \notin AudioTypes) =>
                hstatus[r] >= 400

\* C25 (as claimed): a request to POST /v1/audio/transcriptions with a model
\* other than "whisper-1" is answered with status 400 whatever the file, and the
\* JSON body has a top-level "error" object with "type" and "message".
C25_InvalidModelError ==
    \A r \in Reqs :
        (hpc[r] = "done" /\ hreq[r].endpoint = "openai"
            /\ hreq[r].model # "whisper-1") =>
                /\ hstatus[r] = 400
                /\ "error" \in DOMAIN hbody[r]
                /\ {"type", "message"} \subseteq DOMAIN hbody[r].error

\* the part of C25 that holds: status 400, the error object under "detail"
C25_InvalidModelDetail ==
    \A r \in Reqs :
        (hpc[r] = "done" /\ hreq[r].endpoint = "openai"
            /\ hreq[r].model # "whisper-1") =>
                /\ hstatus[r] = 400
                /\ DOMAIN hbody[r] = {"detail"}
                /\ {"type", "message"} \subseteq DOMAIN hbody[r].detail.error

\* C26 (as claimed): the engine call made for a request to POST
\* /api/voice/recognize uses the language of the request's language field (zh,
\* en or auto).
C26_LanguageSelectsEngineLanguage ==
    \A r \in Reqs :
        (hpc[r] = "done" /\ hreq[r].endpoint = "recognize" /\ result[r].invoked) =>
            result[r].call.language = hreq[r].language

\* what holds instead of C26: the engine is always called with "zh", and the
\* requested language is only echoed in the response
C26_LanguageFixed ==
    \A r \in Reqs :
        (hpc[r] = "done" /\ hreq[r].endpoint = "recognize" /\ result[r].invoked) =>
            /\ result[r].call.language = "zh"
            /\ hstatus[r] = 200 => hbody[r].requested_language = hreq[r].language

\* the number of bytes of the range r that lie in the byte string b
RECURSIVE RangeShared(_, _)
RangeShared(r, b) ==
    IF b = <<>> THEN 0
    ELSE LET s == b[1]
             lo == IF r.lo > s.lo THEN r.lo ELSE s.lo
             hi == IF r.hi < s.hi THEN r.hi ELSE s.hi
         IN (IF r.src = s.src /\ lo <= hi THEN hi - lo + 1 ELSE 0) + RangeShared(r, Tail(b))

\* the number of bytes the byte strings b1 and b2 have in common
RECURSIVE SharedBytes(_, _)
SharedBytes(b1, b2) ==
    IF b1 = <<>> THEN 0 ELSE RangeShared(b1[1], b2) + SharedBytes(Tail(b1), b2)

\* C27 (as claimed): a window submitted to the engine on a connection holds at
\* most 8000 bytes that an earlier engine call of the connection was given; a
\* first chunk transcribed alone is not submitted again in full.
C27_NoReprocessingBeyondOverlap ==
    \A c \in Conns :
        LET f == hist[c].first
            e == hist[c].last
        IN (hist[c].n >= 2 /\ f.engine # "none") =>
              /\ (e.done /\ e.engine # "none") => SharedBytes(f.window, e.window) <= 8000
              /\ engine[c].active => SharedBytes(f.window, engine[c].audio) <= 8000

\* the chunk that connection c handled last was emitted and its engine call succeeded
EmittedLast(c) ==
    LET e == hist[c].last
    IN hist[c].n >= 1 /\ e.done /\ e.rule = "accumulate" /\ e.engine = "ok"

\* the record that connection c finds under its client_id holds audio
HoldsAudio(c) ==
    LET r == audio_buffers[client_id[c]]
    IN r # NoRec /\ heap[r].chunks # <<>> /\ heap[r].total_size > 0

\* C28 (as claimed): every emit is made on a merged window of at least 32000
\* bytes; after every emit whose engine call succeeded the record holds exactly
\* 8000 bytes in one chunk; and from a successful emit until the connection
\* closes its buffer is never empty.
C28_NeverEmptyAfterEmit ==
    \A c \in Conns :
        LET e == hist[c].last
        IN /\ (hist[c].n >= 1 /\ e.done /\ e.rule = "accumulate" /\ e.engine # "none") =>
                 BytesLen(e.window) >= 32000
           /\ EmittedLast(c) =>
                 /\ Len(e.after.chunks) = 1
                 /\ BytesLen(e.after.chunks[1]) = 8000
                 /\ e.after.total_size = 8000
           /\ (EmittedLast(c) /\ pc[c] # "closed") => HoldsAudio(c)

\* the part of C28 that holds: the same, the last part for a connection that
\* shares its client_id with no other connection
C28_NeverEmptyUnshared ==
    \A c \in Conns :
        LET e == hist[c].last
        IN /\ (hist[c].n >= 1 /\ e.done /\ e.rule = "accumulate" /\ e.engine # "none") =>
                 BytesLen(e.window) >= 32000
           /\ EmittedLast(c) =>
                 /\ Len(e.after.chunks) = 1
                 /\ BytesLen(e.after.chunks[1]) = 8000
                 /\ e.after.total_size = 8000
           /\ (EmittedLast(c) /\ pc[c] # "closed"
                  /\ \A d \in Conns \ {c} : client_id[d] # client_id[c]) => HoldsAudio(c)

\* C29 (as claimed): once a chunk other than the connection's first has been
\* handled by the accumulate rule, the record's total_size is below 32000,
\* whether the window's engine call succeeded or raised.
C29_BoundedUnderFailures ==
    \A c \in Conns :
        LET e == hist[c].last
        IN (hist[c].n >= 2 /\ e.done /\ e.rule = "accumulate") =>
              e.after.total_size < 32000

\* the part of C29 that holds: the same unless the engine call raised
C29_BoundedUnlessRaised ==
    \A c \in Conns :
        LET e == hist[c].last
        IN (hist[c].n >= 2 /\ e.done /\ e.rule = "accumulate" /\ e.engine # "raise") =>
              e.after.total_size < 32000

\* C30 (as claimed): a text frame of well-formed JSON that is not a ping object
\* (an object of another type, or an array, string, number or null) sends
\* nothing, changes no buffer record and leaves the handler waiting for the next
\* message.
C30_TextNeverCloses ==
    [][\A c \in Conns :
          (Took(c) /\ last_in'[c].kind \in {"object", "nonobject"}) =>
              /\ sent'[c].last = <<>>
              /\ pc'[c] = "receiving"
              /\ nfault' = nfault
              /\ RecordsUnchanged]_vars

\* the part of C30 that holds: a JSON object of another type is ignored
C30_OtherObjectIgnored ==
    [][\A c \in Conns :
          (Took(c) /\ last_in'[c].kind = "object") =>
              /\ sent'[c].last = <<>>
              /\ pc'[c] = "receiving"
              /\ nfault' = nfault
              /\ RecordsUnchanged]_vars

====
